---------------------------- MODULE Spec2Model ----------------------------
(***************************************************************************)
(* Verification codes and account lifecycle of the foodiemap backend.      *)
(*                                                                         *)
(* The specifications of this module:                                      *)
(*   Spec      the one-time-code flows: email verification                 *)
(*             (models/EmailVerification.js and its routes) and the admin  *)
(*             second factor (routes/admin.js, the in-memory authCodes).   *)
(*             Its clock, now, counts minutes.  The two flows share no     *)
(*             state but the clock, so a behaviour exercises one of them:  *)
(*             purpose says which.                                         *)
(*   SpecAcct  the account lifecycle: deletion request, recovery and the   *)
(*             purge sweep (models/User.js in its two versions, the SQL    *)
(*             functions of add_account_deletion_columns.sql, the cron job *)
(*             of jobs/cleanup.js).  Its clock, today, counts days.        *)
(*   SpecSession  the account lifecycle as the logins (POST /login, POST   *)
(*             /social-login) and authMiddleware see it.                   *)
(*   SpecAcctLive  the account lifecycle under a cron that keeps firing.   *)
(*   SpecStatus  the account lifecycle with the status query.              *)
(*   SpecRace  the account lifecycle with two clients whose calls overlap. *)
(*   SpecSocial  the codes of registered users together with the sign-up   *)
(*             of social-login users (User.createSocialUser).              *)
(*                                                                         *)
(* A request that awaits the store between its steps is a process: every   *)
(* await is a point where other requests run.                              *)
(***************************************************************************)
EXTENDS Integers, Sequences, FiniteSets, TLC

\* ------------------------------------------------------------------ bounds
MaxRows == 2        \* rows ever inserted into email_verifications
MaxLogins == 2      \* admin /login calls that store a code

\* ------------------------------------------------------- program constants
CodeTTL == 5        \* minutes: Date.now() + 5 * 60 * 1000
GraceDays == 30     \* INTERVAL '30 days'

\* ------------------------------------------------------------- input sets
NULL == "null"       \* a null string or reference
NoTime == -1         \* a null timestamp
NoDays == -1000      \* an answer without days_remaining
Instants == {0, 4, 5, 6}     \* minutes at which the code flows are observed
Dates == {0, 29, 30, 31}     \* days at which the accounts are observed
UserSeq == <<"u1", "u2">>    \* the rows of users in the order a scan meets them
UserIds == {"u1", "u2"}
Emails == {"a@x.com", "b@x.com"}    \* addresses a request may name
Mailboxes == {"a@x.com"}            \* addresses a code is asked for
AdminEmails == {"admin@x.com"}
CodeValues == {"111111", "222222"}
Reasons == {"moving"}                \* the reason a deletion request gives
Procs == {"p1", "p2"}               \* requests of the code flows
Clients == {"c1", "c2"}             \* requests of the account lifecycle
Solo == {"c1"}                      \* the client of SpecAcct
Jobs == {"j1", "j2"}                \* runs of the cron callback
Purposes == {"email_verification", "operator_2fa"}
UserModels == {"rpc", "simple"}     \* the two versions of models/User.js
Transports == {"up", "down"}        \* the mail transport delivers, or sendMail throws

EmailOf(u) == IF u = "u1" THEN "a@x.com" ELSE "b@x.com"

\* users.auth_provider: u1 registered with a password, u2 through a social provider
AuthProvider(u) == IF u = "u1" THEN "email" ELSE "kakao"

\* the users who register in the code flows
Applicants == {u \in UserIds : EmailOf(u) \in Mailboxes}

\* the first instant of S after t
NextInstant(S, t) == CHOOSE x \in S : x > t /\ \A y \in S : y > t => x <= y

VARIABLES
  now,                  \* wall clock of the code flows, in minutes
  purpose,              \* the code flow this behaviour exercises
  transporter,          \* emailService.js transporter: whether sendMail gets through
  users,                \* table users: [UserIds -> row]
  email_verifications,  \* table email_verifications: sequence of rows, id = index
  authCodes,            \* admin.js Map authCodes: [AdminEmails -> entry or NoAuth]
  logins,               \* number of entries ever stored in authCodes
  proc,                 \* requests of the code flows: [Procs -> record]
  today,                \* wall clock of the account lifecycle, in days
  userModel,            \* which version of models/User.js is deployed
  req,                  \* requests of the account lifecycle: [Clients -> record]
  job                   \* runs of the cron callback: [Jobs -> record]

codeVars == <<now, purpose, transporter, email_verifications, authCodes, logins, proc>>
acctVars == <<today, userModel, req, job>>
vars == <<now, purpose, transporter, users, email_verifications, authCodes, logins, proc,
          today, userModel, req, job>>

\* --------------------------------------------------------------- helpers
IdleProc == [op |-> "none", pc |-> "idle", email |-> NULL, code |-> NULL,
             row |-> 0, result |-> "none", token |-> NULL]

NoUser == [exists |-> FALSE, email_verified |-> FALSE, is_active |-> TRUE,
           deletion_scheduled_at |-> NoTime, deletion_reason |-> NULL,
           deleted_at |-> NoTime]

\* authCodes.get(email) === undefined
NoAuth == [code |-> NULL, expiresAt |-> NoTime, seq |-> 0, adminData |-> NULL]

\* Admin.findByEmail(email).id
AdminId(a) == IF a = "admin@x.com" THEN "admin1" ELSE NULL

\* generateAdminToken(adminId): a token that carries the id it was signed for
generateAdminToken(adminId) == adminId

\* users.select(...).eq('email', email).single()
UserByEmail(e) ==
  IF \E u \in UserIds : users[u].exists /\ EmailOf(u) = e
  THEN CHOOSE u \in UserIds : users[u].exists /\ EmailOf(u) = e
  ELSE NULL

\* RowMatches without .eq('email', email): a select that takes the code of any
\* address
RowMatchesAnyEmail(r, e, c, t) ==
  /\ r.code = c
  /\ r.is_verified = FALSE
  /\ r.expires_at > t

\* RowMatches without .gt('expires_at', now): a select that forgets the expiry
RowMatchesAnyAge(r, e, c, t) ==
  /\ r.email = e
  /\ r.code = c
  /\ r.is_verified = FALSE

\* a row that the filters of verify's select accept at time t
RowMatches(r, e, c, t) ==
  /\ r.email = e
  /\ r.code = c
  /\ r.is_verified = FALSE
  /\ r.expires_at > t

Max(S) == CHOOSE x \in S : \A y \in S : y <= x

\* verify's select: newest matching row (order created_at desc, limit 1), 0 if none
SelectVerification(e, c, t) ==
  LET ids == {i \in 1..Len(email_verifications) :
                 RowMatches(email_verifications[i], e, c, t)}
  IN IF ids = {} THEN 0 ELSE Max(ids)

\* the row EmailVerification.create inserts
NewVerification(uid, e, c) ==
  [user_id |-> uid, email |-> e, code |-> c,
   expires_at |-> now + CodeTTL, is_verified |-> FALSE]

\* sendVerificationEmail: resolves when transporter.sendMail does, throws otherwise
sendVerificationEmail == transporter = "up"

\* EmailVerification.create: the table once the call has returned.  The row is
\* inserted first; a throw of sendVerificationEmail is caught and logged, and the
\* row is returned to the caller either way
Create(uid, e, c) ==
  LET inserted == Append(email_verifications, NewVerification(uid, e, c))
  IN IF sendVerificationEmail THEN inserted ELSE inserted

\* EmailVerification.isEmailVerified
IsEmailVerified(e) ==
  LET u == UserByEmail(e) IN IF u = NULL THEN FALSE ELSE users[u].email_verified

Finish(p, res) == [proc EXCEPT ![p].pc = "done", ![p].result = res]

\* ------------------------------------------------------------------ Init
IdleReq == [op |-> "none", pc |-> "idle", user |-> NULL, at |-> 0,
            reason |-> NULL, result |-> "none", days_remaining |-> NoDays]

IdleJob == [pc |-> "idle", at |-> 0, due |-> {}, next |-> 0, purged |-> {},
            result |-> "none"]

Init ==
  /\ now = 0
  /\ purpose \in Purposes
  /\ transporter \in Transports
  /\ purpose = "operator_2fa" => transporter = "up"
  /\ users = [u \in UserIds |-> NoUser]
  /\ email_verifications = <<>>
  /\ authCodes = [a \in AdminEmails |-> NoAuth]
  /\ logins = 0
  /\ proc = [p \in Procs |-> IdleProc]
  /\ today = 0
  /\ userModel = "rpc"
  /\ req = [c \in Clients |-> IdleReq]
  /\ job = [j \in Jobs |-> IdleJob]

\* ------------------------------------------------- actions: the code flows
Tick ==
  /\ \E t \in Instants : t > now
  /\ now' = NextInstant(Instants, now)
  /\ UNCHANGED <<purpose, transporter, users, email_verifications, authCodes, logins, proc>>
  /\ UNCHANGED acctVars

\* POST /register: User.create, then EmailVerification.create in a try/catch
Register(u, c, storeFails) ==
  /\ purpose = "email_verification"
  /\ ~users[u].exists
  /\ users' = [users EXCEPT ![u] = [NoUser EXCEPT !.exists = TRUE]]
  /\ IF storeFails \/ Len(email_verifications) >= MaxRows
     THEN UNCHANGED email_verifications
     ELSE email_verifications' =
            Create(u, EmailOf(u), c)
  /\ UNCHANGED <<now, purpose, transporter, authCodes, logins, proc>>
  /\ UNCHANGED acctVars

\* POST /social-login of a user found neither by social id nor by email:
\* User.createSocialUser inserts the row with email_verified: true
CreateSocialUser(u) ==
  /\ purpose = "email_verification"
  /\ AuthProvider(u) # "email"
  /\ ~users[u].exists
  /\ users' = [users EXCEPT ![u] = [NoUser EXCEPT !.exists = TRUE,
                                                  !.email_verified = TRUE]]
  /\ UNCHANGED <<now, purpose, transporter, email_verifications, authCodes, logins, proc>>
  /\ UNCHANGED acctVars

\* POST /send-email-verification: EmailVerification.create(null, email)
SendEmailVerification(e, c) ==
  /\ purpose = "email_verification"
  /\ ~IsEmailVerified(e)
  /\ Len(email_verifications) < MaxRows
  /\ email_verifications' = Create(NULL, e, c)
  /\ UNCHANGED <<now, purpose, transporter, users, authCodes, logins, proc>>
  /\ UNCHANGED acctVars

\* EmailVerification.verify, first await: the select
VerifySelect(p, e, c, storeFails) ==
  /\ purpose = "email_verification"
  /\ proc[p].pc = "idle"
  /\ LET id == SelectVerification(e, c, now)
         call == [IdleProc EXCEPT !.op = "verify", !.email = e, !.code = c]
     IN proc' = [proc EXCEPT ![p] =
                   IF storeFails THEN [call EXCEPT !.pc = "done", !.result = "error"]
                   ELSE IF id = 0 THEN [call EXCEPT !.pc = "done", !.result = "invalid"]
                   ELSE [call EXCEPT !.pc = "selected", !.row = id]]
  /\ UNCHANGED <<now, purpose, transporter, users, email_verifications, authCodes, logins>>
  /\ UNCHANGED acctVars

\* EmailVerification.verify, second await: update ... eq('id', data.id)
VerifyConsume(p, storeFails) ==
  /\ proc[p].op = "verify" /\ proc[p].pc = "selected"
  /\ IF storeFails
     THEN /\ proc' = Finish(p, "error")
          /\ UNCHANGED email_verifications
     ELSE /\ email_verifications' =
               [email_verifications EXCEPT ![proc[p].row].is_verified = TRUE]
          /\ proc' = [proc EXCEPT ![p].pc = "consumed"]
  /\ UNCHANGED <<now, purpose, transporter, users, authCodes, logins>>
  /\ UNCHANGED acctVars

\* EmailVerification.verify, third await: update users ... eq('id', data.user_id).single()
VerifyUser(p, storeFails) ==
  /\ proc[p].op = "verify" /\ proc[p].pc = "consumed"
  /\ LET uid == email_verifications[proc[p].row].user_id
     IN IF storeFails \/ uid = NULL \/ ~users[uid].exists
        THEN /\ proc' = Finish(p, "error")
             /\ UNCHANGED users
        ELSE /\ users' = [users EXCEPT ![uid].email_verified = TRUE]
             /\ proc' = Finish(p, "success")
  /\ UNCHANGED <<now, purpose, transporter, email_verifications, authCodes, logins>>
  /\ UNCHANGED acctVars

\* EmailVerification.resend, first await: the update whose error nobody reads
ResendInvalidate(p, e, storeFails) ==
  /\ purpose = "email_verification"
  /\ proc[p].pc = "idle"
  /\ email_verifications' =
       IF storeFails THEN email_verifications
       ELSE [i \in 1..Len(email_verifications) |->
               IF email_verifications[i].email = e
                  /\ email_verifications[i].is_verified = FALSE
               THEN [email_verifications[i] EXCEPT !.is_verified = TRUE]
               ELSE email_verifications[i]]
  /\ proc' = [proc EXCEPT ![p] =
                [IdleProc EXCEPT !.op = "resend", !.pc = "invalidated", !.email = e]]
  /\ UNCHANGED <<now, purpose, transporter, users, authCodes, logins>>
  /\ UNCHANGED acctVars

\* EmailVerification.resend, second await (the user lookup) and this.create
ResendCreate(p, c, storeFails) ==
  /\ proc[p].op = "resend" /\ proc[p].pc = "invalidated"
  /\ LET u == UserByEmail(proc[p].email)
     IN IF u = NULL \/ storeFails
        THEN /\ proc' = Finish(p, "error")
             /\ UNCHANGED email_verifications
        ELSE /\ Len(email_verifications) < MaxRows
             /\ email_verifications' = Create(u, proc[p].email, c)
             /\ proc' = [proc EXCEPT ![p].pc = "done", ![p].result = "success",
                                     ![p].code = c,
                                     ![p].row = Len(email_verifications) + 1]
  /\ UNCHANGED <<now, purpose, transporter, users, authCodes, logins>>
  /\ UNCHANGED acctVars

\* AdminLogin without its password test: a /login that stores a code for whoever
\* names the email
AdminLoginAnyPassword(a, c, passwordOk) ==
  /\ purpose = "operator_2fa"
  /\ logins < MaxLogins
  /\ authCodes' = [authCodes EXCEPT ![a] =
        [code |-> c, expiresAt |-> now + CodeTTL, seq |-> logins + 1,
         adminData |-> AdminId(a)]]
  /\ logins' = logins + 1
  /\ UNCHANGED <<now, purpose, transporter, users, email_verifications, proc>>
  /\ UNCHANGED acctVars

\* admin POST /login: on a good password authCodes.set(email, {code, expiresAt,
\* adminData})
AdminLogin(a, c, passwordOk) ==
  /\ purpose = "operator_2fa"
  /\ logins < MaxLogins
  /\ IF passwordOk
     THEN /\ authCodes' = [authCodes EXCEPT ![a] =
                [code |-> c, expiresAt |-> now + CodeTTL, seq |-> logins + 1,
                 adminData |-> AdminId(a)]]
          /\ logins' = logins + 1
     ELSE UNCHANGED <<authCodes, logins>>
  /\ UNCHANGED <<now, purpose, transporter, users, email_verifications, proc>>
  /\ UNCHANGED acctVars

\* VerifyAuthCheck with a delete on mismatch: a /verify-auth that burns the code
\* at the first wrong value
VerifyAuthCheckBurnsOnMismatch(p, a, c) ==
  /\ purpose = "operator_2fa"
  /\ proc[p].pc = "idle"
  /\ LET authData == authCodes[a]
         call == [IdleProc EXCEPT !.op = "verifyAuth", !.email = a, !.code = c]
     IN IF authData = NoAuth
        THEN /\ proc' = [proc EXCEPT ![p] =
                           [call EXCEPT !.pc = "done", !.result = "notfound"]]
             /\ UNCHANGED authCodes
        ELSE IF now > authData.expiresAt
        THEN /\ authCodes' = [authCodes EXCEPT ![a] = NoAuth]
             /\ proc' = [proc EXCEPT ![p] =
                           [call EXCEPT !.pc = "done", !.result = "expired"]]
        ELSE IF authData.code # c
        THEN /\ authCodes' = [authCodes EXCEPT ![a] = NoAuth]
             /\ proc' = [proc EXCEPT ![p] =
                           [call EXCEPT !.pc = "done", !.result = "mismatch"]]
        ELSE /\ proc' = [proc EXCEPT ![p] =
                           [call EXCEPT !.pc = "matched", !.row = authData.seq,
                              !.token = generateAdminToken(authData.adminData)]]
             /\ UNCHANGED authCodes
  /\ UNCHANGED <<now, purpose, transporter, users, email_verifications, logins>>
  /\ UNCHANGED acctVars

\* admin POST /verify-auth up to its await: lookup, expiry check, comparison, token
VerifyAuthCheck(p, a, c) ==
  /\ purpose = "operator_2fa"
  /\ proc[p].pc = "idle"
  /\ LET authData == authCodes[a]
         call == [IdleProc EXCEPT !.op = "verifyAuth", !.email = a, !.code = c]
     IN IF authData = NoAuth
        THEN /\ proc' = [proc EXCEPT ![p] =
                           [call EXCEPT !.pc = "done", !.result = "notfound"]]
             /\ UNCHANGED authCodes
        ELSE IF now > authData.expiresAt
        THEN /\ authCodes' = [authCodes EXCEPT ![a] = NoAuth]
             /\ proc' = [proc EXCEPT ![p] =
                           [call EXCEPT !.pc = "done", !.result = "expired"]]
        ELSE IF authData.code # c
        THEN /\ proc' = [proc EXCEPT ![p] =
                           [call EXCEPT !.pc = "done", !.result = "mismatch"]]
             /\ UNCHANGED authCodes
        ELSE /\ proc' = [proc EXCEPT ![p] =
                           [call EXCEPT !.pc = "matched", !.row = authData.seq,
                              !.token = generateAdminToken(authData.adminData)]]
             /\ UNCHANGED authCodes
  /\ UNCHANGED <<now, purpose, transporter, users, email_verifications, logins>>
  /\ UNCHANGED acctVars

\* admin POST /verify-auth after await Admin.updateLastLogin: delete, respond
VerifyAuthFinish(p) ==
  /\ proc[p].op = "verifyAuth" /\ proc[p].pc = "matched"
  /\ authCodes' = [authCodes EXCEPT ![proc[p].email] = NoAuth]
  /\ proc' = Finish(p, "success")
  /\ UNCHANGED <<now, purpose, transporter, users, email_verifications, logins>>
  /\ UNCHANGED acctVars

Next ==
  \/ Tick
  \/ \E u \in Applicants, c \in CodeValues, f \in BOOLEAN : Register(u, c, f)
  \/ \E e \in Mailboxes, c \in CodeValues : SendEmailVerification(e, c)
  \/ \E p \in Procs, e \in Emails, c \in CodeValues, f \in BOOLEAN :
        VerifySelect(p, e, c, f)
  \/ \E p \in Procs, f \in BOOLEAN : VerifyConsume(p, f)
  \/ \E p \in Procs, f \in BOOLEAN : VerifyUser(p, f)
  \/ \E p \in Procs, e \in Emails, f \in BOOLEAN : ResendInvalidate(p, e, f)
  \/ \E p \in Procs, c \in CodeValues, f \in BOOLEAN : ResendCreate(p, c, f)
  \/ \E a \in AdminEmails, c \in CodeValues, ok \in BOOLEAN : AdminLogin(a, c, ok)
  \/ \E p \in Procs, a \in AdminEmails, c \in CodeValues : VerifyAuthCheck(p, a, c)
  \/ \E p \in Procs : VerifyAuthFinish(p)

Spec == Init /\ [][Next]_vars

\* the codes of registered users (issued by /register and by resend) while the
\* mail transport is up, together with the sign-up of social-login users
InitSocial == Init /\ purpose = "email_verification" /\ transporter = "up"

NextSocial ==
  \/ Tick
  \/ \E u \in Applicants, c \in CodeValues, f \in BOOLEAN : Register(u, c, f)
  \/ \E u \in UserIds : CreateSocialUser(u)
  \/ \E p \in Procs, e \in Emails, c \in CodeValues, f \in BOOLEAN :
        VerifySelect(p, e, c, f)
  \/ \E p \in Procs, f \in BOOLEAN : VerifyConsume(p, f)
  \/ \E p \in Procs, f \in BOOLEAN : VerifyUser(p, f)
  \/ \E p \in Procs, e \in Emails, f \in BOOLEAN : ResendInvalidate(p, e, f)
  \/ \E p \in Procs, c \in CodeValues, f \in BOOLEAN : ResendCreate(p, c, f)

SpecSocial == InitSocial /\ [][NextSocial]_vars

\* ------------------------------------------ actions: the account lifecycle
\* the users row as the deployed User.js reads it: when deletion was requested
RequestedAt(r) ==
  IF userModel = "rpc" THEN r.deletion_scheduled_at ELSE r.deleted_at

\* AccountState.status of the spec, read off the users row
Status(u) ==
  IF ~users[u].exists THEN "deleted"
  ELSE IF RequestedAt(users[u]) = NoTime THEN "active"
  ELSE "pending_deletion"

\* PurgeEligible without INTERVAL '30 days': a sweep that forgets the grace period
PurgeEligibleNoGrace(r, t) ==
  /\ r.exists
  /\ r.deletion_scheduled_at # NoTime
  /\ r.deletion_scheduled_at <= t

\* delete_expired_accounts: the WHERE clause of its DELETE, NOW() = t
PurgeEligible(r, t) ==
  /\ r.exists
  /\ r.deletion_scheduled_at # NoTime
  /\ r.deletion_scheduled_at <= t - GraceDays

\* WindowPassed with < for <=: a window test that lets the deadline itself through
WindowPassedStrict(scheduled_at, t) == scheduled_at < t - GraceDays

\* recover_account: the test that raises when the window has passed, NOW() = t
WindowPassed(scheduled_at, t) == scheduled_at <= t - GraceDays

\* the row of u is locked by the DELETE of a run that has not committed yet; a
\* statement that writes the row waits for the lock, a SELECT reads the row as it
\* was committed
Locked(u) == \E j \in Jobs : job[j].pc = "running" /\ u \in job[j].purged

\* a request slot is free once its previous call has answered
Free(c) == req[c].pc \in {"idle", "done"}

\* the answer of a call; the record keeps what the caller sees of it
Answer(c, res) ==
  [req EXCEPT ![c] = [IdleReq EXCEPT !.op = req[c].op, !.user = req[c].user,
                                     !.pc = "done", !.result = res]]

InitAcct ==
  /\ now = 0
  /\ purpose = "email_verification"
  /\ transporter = "up"
  /\ users = [u \in UserIds |-> [NoUser EXCEPT !.exists = TRUE]]
  /\ email_verifications = <<>>
  /\ authCodes = [a \in AdminEmails |-> NoAuth]
  /\ logins = 0
  /\ proc = [p \in Procs |-> IdleProc]
  /\ today = 0
  /\ userModel \in UserModels
  /\ req = [c \in Clients |-> IdleReq]
  /\ job = [j \in Jobs |-> IdleJob]

NextDay ==
  /\ \E d \in Dates : d > today
  /\ today' = NextInstant(Dates, today)
  /\ UNCHANGED <<userModel, req, job, users>>
  /\ UNCHANGED codeVars

\* User.requestDeletion (rpc) entering request_account_deletion: the EXISTS test
RequestCheck(c, u, reason, storeFails) ==
  /\ userModel = "rpc"
  /\ Free(c)
  /\ LET call == [IdleReq EXCEPT !.op = "requestDeletion", !.user = u]
     IN req' = [req EXCEPT ![c] =
                  IF storeFails
                  THEN [call EXCEPT !.pc = "done", !.result = "error"]
                  ELSE IF users[u].exists /\ users[u].deletion_scheduled_at # NoTime
                  THEN [call EXCEPT !.pc = "done", !.result = "AlreadyPending"]
                  ELSE [call EXCEPT !.pc = "checked", !.reason = reason,
                                    !.at = today]]
  /\ UNCHANGED <<today, userModel, job, users>>
  /\ UNCHANGED codeVars

\* request_account_deletion: its UPDATE, NOW() being the start of the call
RequestUpdate(c) ==
  /\ req[c].op = "requestDeletion" /\ req[c].pc = "checked"
  /\ ~Locked(req[c].user)
  /\ LET u == req[c].user
     IN users' = IF users[u].exists
                 THEN [users EXCEPT ![u].deletion_scheduled_at = req[c].at,
                                    ![u].deletion_reason = req[c].reason,
                                    ![u].is_active = FALSE]
                 ELSE users
  /\ req' = Answer(c, "ok")
  /\ UNCHANGED <<today, userModel, job>>
  /\ UNCHANGED codeVars

\* User.recoverAccount (rpc) entering recover_account: the SELECT and the two tests
RecoverRead(c, u, storeFails) ==
  /\ userModel = "rpc"
  /\ Free(c)
  /\ LET call == [IdleReq EXCEPT !.op = "recoverAccount", !.user = u]
         scheduled_at == IF users[u].exists THEN users[u].deletion_scheduled_at
                         ELSE NoTime
     IN req' = [req EXCEPT ![c] =
                  IF storeFails
                  THEN [call EXCEPT !.pc = "done", !.result = "error"]
                  ELSE IF scheduled_at = NoTime
                  THEN [call EXCEPT !.pc = "done", !.result = "NotPending"]
                  ELSE IF WindowPassed(scheduled_at, today)
                  THEN [call EXCEPT !.pc = "done", !.result = "WindowExpired"]
                  ELSE [call EXCEPT !.pc = "read", !.at = today]]
  /\ UNCHANGED <<today, userModel, job, users>>
  /\ UNCHANGED codeVars

\* RecoverUpdate without deletion_reason = NULL: a recovery that keeps the reason
RecoverUpdateKeepsReason(c) ==
  /\ req[c].op = "recoverAccount" /\ req[c].pc = "read"
  /\ ~Locked(req[c].user)
  /\ LET u == req[c].user
     IN users' = IF users[u].exists
                 THEN [users EXCEPT ![u].deletion_scheduled_at = NoTime,
                                    ![u].is_active = TRUE]
                 ELSE users
  /\ req' = Answer(c, "ok")
  /\ UNCHANGED <<today, userModel, job>>
  /\ UNCHANGED codeVars

\* RecoverUpdate without is_active = TRUE: a recovery that clears the timestamp
\* and leaves the account suspended
RecoverUpdateKeepsSuspended(c) ==
  /\ req[c].op = "recoverAccount" /\ req[c].pc = "read"
  /\ ~Locked(req[c].user)
  /\ LET u == req[c].user
     IN users' = IF users[u].exists
                 THEN [users EXCEPT ![u].deletion_scheduled_at = NoTime,
                                    ![u].deletion_reason = NULL]
                 ELSE users
  /\ req' = Answer(c, "ok")
  /\ UNCHANGED <<today, userModel, job>>
  /\ UNCHANGED codeVars

\* recover_account: its UPDATE
RecoverUpdate(c) ==
  /\ req[c].op = "recoverAccount" /\ req[c].pc = "read"
  /\ ~Locked(req[c].user)
  /\ LET u == req[c].user
     IN users' = IF users[u].exists
                 THEN [users EXCEPT ![u].deletion_scheduled_at = NoTime,
                                    ![u].deletion_reason = NULL,
                                    ![u].is_active = TRUE]
                 ELSE users
  /\ req' = Answer(c, "ok")
  /\ UNCHANGED <<today, userModel, job>>
  /\ UNCHANGED codeVars

\* User.requestDeletion (simplified version): one update ... eq('id', userId).single()
RequestSimple(c, u, reason, storeFails) ==
  /\ userModel = "simple"
  /\ Free(c)
  /\ LET call == [IdleReq EXCEPT !.op = "requestDeletion", !.user = u,
                                 !.pc = "done"]
     IN IF storeFails \/ ~users[u].exists
        THEN /\ req' = [req EXCEPT ![c] = [call EXCEPT !.result = "error"]]
             /\ UNCHANGED users
        ELSE /\ users' = [users EXCEPT ![u].deleted_at = today,
                                       ![u].is_active = FALSE]
             /\ req' = [req EXCEPT ![c] = [call EXCEPT !.result = "ok"]]
  /\ UNCHANGED <<today, userModel, job>>
  /\ UNCHANGED codeVars

\* User.recoverAccount (simplified version): one update ... eq('id', userId).single()
RecoverSimple(c, u, storeFails) ==
  /\ userModel = "simple"
  /\ Free(c)
  /\ LET call == [IdleReq EXCEPT !.op = "recoverAccount", !.user = u,
                                 !.pc = "done"]
     IN IF storeFails \/ ~users[u].exists
        THEN /\ req' = [req EXCEPT ![c] = [call EXCEPT !.result = "error"]]
             /\ UNCHANGED users
        ELSE /\ users' = [users EXCEPT ![u].deleted_at = NoTime,
                                       ![u].is_active = TRUE]
             /\ req' = [req EXCEPT ![c] = [call EXCEPT !.result = "ok"]]
  /\ UNCHANGED <<today, userModel, job>>
  /\ UNCHANGED codeVars

\* POST /login: User.findByEmail, the provider test, User.verifyPassword, generateToken
Login(c, u, passwordOk, storeFails) ==
  /\ Free(c)
  /\ LET call == [IdleReq EXCEPT !.op = "login", !.user = u, !.pc = "done"]
     IN req' = [req EXCEPT ![c] =
                  IF storeFails THEN [call EXCEPT !.result = "error"]
                  ELSE IF ~users[u].exists THEN [call EXCEPT !.result = "invalid"]
                  ELSE IF AuthProvider(u) # "email"
                  THEN [call EXCEPT !.result = "social_required"]
                  ELSE IF ~passwordOk THEN [call EXCEPT !.result = "invalid"]
                  ELSE [call EXCEPT !.result = "token"]]
  /\ UNCHANGED <<today, userModel, job, users>>
  /\ UNCHANGED codeVars

\* POST /social-login with the social_id of u: User.findBySocialId, else
\* User.findByEmail, else User.createSocialUser (a new row under a new id, which
\* is none of the accounts followed here), generateToken
SocialLogin(c, u, storeFails) ==
  /\ Free(c)
  /\ LET call == [IdleReq EXCEPT !.op = "socialLogin", !.user = u, !.pc = "done"]
     IN req' = [req EXCEPT ![c] =
                  IF storeFails THEN [call EXCEPT !.result = "error"]
                  ELSE IF users[u].exists /\ AuthProvider(u) # "email"
                  THEN [call EXCEPT !.result = "token"]
                  ELSE IF users[u].exists
                  THEN [call EXCEPT !.result = "email_exists"]
                  ELSE [call EXCEPT !.result = "created"]]
  /\ UNCHANGED <<today, userModel, job, users>>
  /\ UNCHANGED codeVars

\* AuthMiddleware without its is_active test: a middleware that only looks the
\* user up
AuthMiddlewareNoActiveTest(c, u, storeFails) ==
  /\ Free(c)
  /\ LET call == [IdleReq EXCEPT !.op = "authMiddleware", !.user = u, !.pc = "done"]
     IN req' = [req EXCEPT ![c] =
                  IF storeFails \/ ~users[u].exists
                  THEN [call EXCEPT !.result = "unauthorized"]
                  ELSE [call EXCEPT !.result = "next"]]
  /\ UNCHANGED <<today, userModel, job, users>>
  /\ UNCHANGED codeVars

\* authMiddleware on a request that carries a valid token of u: User.findById
\* (which throws when the row is gone), the is_active test, next()
AuthMiddleware(c, u, storeFails) ==
  /\ Free(c)
  /\ LET call == [IdleReq EXCEPT !.op = "authMiddleware", !.user = u, !.pc = "done"]
     IN req' = [req EXCEPT ![c] =
                  IF storeFails \/ ~users[u].exists
                  THEN [call EXCEPT !.result = "unauthorized"]
                  ELSE IF users[u].is_active = FALSE
                  THEN [call EXCEPT !.result = "forbidden"]
                  ELSE [call EXCEPT !.result = "next"]]
  /\ UNCHANGED <<today, userModel, job, users>>
  /\ UNCHANGED codeVars

\* admin DELETE /users/:id: the select that answers 404 when the row is missing,
\* then users.delete().eq('id', id); a store failure answers 500 and deletes nothing
AdminDeleteUser(u, storeFails) ==
  /\ ~Locked(u)
  /\ users' = IF users[u].exists /\ ~storeFails
              THEN [users EXCEPT ![u] = NoUser]
              ELSE users
  /\ UNCHANGED <<today, userModel, req, job>>
  /\ UNCHANGED codeVars

\* get_deletion_status: EXTRACT(DAY FROM (scheduled_at + INTERVAL '30 days' - NOW())),
\* the days field of the interval, which carries the sign of the interval
DaysRemaining(scheduled_at, t) == scheduled_at + GraceDays - t

\* User.getDeletionStatus.  rpc: get_deletion_status selects the row (nulls when
\* there is none) and builds its answer from deletion_scheduled_at.  Simplified
\* version: one select ... single(), and days_remaining: 0 in every answer
GetDeletionStatus(c, u, storeFails) ==
  /\ Free(c)
  /\ LET call == [IdleReq EXCEPT !.op = "getDeletionStatus", !.user = u,
                                 !.pc = "done"]
         scheduled_at == IF users[u].exists THEN RequestedAt(users[u]) ELSE NoTime
     IN req' = [req EXCEPT ![c] =
                  IF storeFails THEN [call EXCEPT !.result = "error"]
                  ELSE IF userModel = "rpc"
                  THEN IF scheduled_at = NoTime
                       THEN [call EXCEPT !.result = "not_scheduled"]
                       ELSE [call EXCEPT !.result = "scheduled",
                               !.days_remaining = DaysRemaining(scheduled_at, today)]
                  ELSE IF ~users[u].exists THEN [call EXCEPT !.result = "error"]
                  ELSE IF scheduled_at = NoTime
                  THEN [call EXCEPT !.result = "not_scheduled", !.days_remaining = 0]
                  ELSE [call EXCEPT !.result = "scheduled", !.days_remaining = 0]]
  /\ UNCHANGED <<today, userModel, job, users>>
  /\ UNCHANGED codeVars

\* recoverAccount called now on u would succeed.  rpc: recover_account finds a
\* deletion_scheduled_at and its window test does not raise.  Simplified version:
\* the update ... single() finds the row
RecoverAccepts(u) ==
  IF userModel = "rpc"
  THEN /\ users[u].exists
       /\ users[u].deletion_scheduled_at # NoTime
       /\ ~WindowPassed(users[u].deletion_scheduled_at, today)
  ELSE users[u].exists

\* a sweep started now would remove u.  rpc: the WHERE clause of
\* delete_expired_accounts.  Simplified version: deleteExpiredAccounts removes
\* nothing
SweepTakes(u) ==
  IF userModel = "rpc" THEN PurgeEligible(users[u], today) ELSE FALSE

\* the accounts whose grace period has elapsed, as the spec counts them
Eligible ==
  {u \in UserIds : /\ Status(u) = "pending_deletion"
                   /\ RequestedAt(users[u]) <= today - GraceDays}

\* cron.schedule stays registered: the callback runs again once a run has ended,
\* and its record holds the latest run.  The runs are alike: the first to start
\* is j1
MayStart(j) == job[j].pc # "running" /\ (j = "j2" => job["j1"].pc # "idle")

\* the cron callback awaits User.deleteExpiredAccounts (rpc): delete_expired_accounts
\* starts, NOW() is fixed and the DELETE takes its snapshot, due being the rows
\* of the snapshot that satisfy its WHERE clause; a failing call deletes nothing
\* and the callback logs it
SweepStart(j, storeFails) ==
  /\ userModel = "rpc"
  /\ MayStart(j)
  /\ job' = [job EXCEPT ![j] =
               IF storeFails
               THEN [IdleJob EXCEPT !.pc = "done", !.result = "failed"]
               ELSE [IdleJob EXCEPT !.pc = "running", !.at = today, !.next = 1,
                       !.due = {u \in UserIds : PurgeEligible(users[u], today)}]]
  /\ UNCHANGED <<today, userModel, req, users>>
  /\ UNCHANGED codeVars

\* delete_expired_accounts: the DELETE reaches its next row.  A row of its snapshot
\* is locked (after the run that holds its lock has ended), tested again in its
\* latest version and deleted; the deletion takes effect when the call commits.
\* A row whose deletion raises (a foreign key that does not cascade) fails the
\* statement: the call rolls back, User.deleteExpiredAccounts throws and the
\* callback logs the failure
SweepRow(j, eraseFails) ==
  /\ job[j].pc = "running"
  /\ job[j].next <= Len(UserSeq)
  /\ LET u == UserSeq[job[j].next]
     IN /\ ~(u \in job[j].due /\ Locked(u))
        /\ job' = [job EXCEPT ![j] =
                     IF ~(u \in job[j].due /\ PurgeEligible(users[u], job[j].at))
                     THEN [job[j] EXCEPT !.next = @ + 1]
                     ELSE IF eraseFails
                     THEN [IdleJob EXCEPT !.pc = "done", !.result = "failed"]
                     ELSE [job[j] EXCEPT !.next = @ + 1, !.purged = @ \cup {u}]]
  /\ UNCHANGED <<today, userModel, req, users>>
  /\ UNCHANGED codeVars

\* the awaited call commits and returns (deleted_count of delete_expired_accounts,
\* or the 0 of the simplified version) and the callback logs deletedCount
SweepReturn(j) ==
  /\ job[j].pc = "running"
  /\ job[j].next > Len(UserSeq)
  /\ users' = [u \in UserIds |-> IF u \in job[j].purged THEN NoUser ELSE users[u]]
  /\ job' = [job EXCEPT ![j] = [IdleJob EXCEPT !.pc = "done", !.result = "ok",
                                               !.purged = job[j].purged]]
  /\ UNCHANGED <<today, userModel, req>>
  /\ UNCHANGED codeVars

\* the cron callback awaits User.deleteExpiredAccounts (simplified version), which
\* reads and deletes nothing
SweepSimple(j) ==
  /\ userModel = "simple"
  /\ MayStart(j)
  /\ job' = [job EXCEPT ![j] =
               [IdleJob EXCEPT !.pc = "running", !.at = today, !.due = Eligible,
                               !.next = Len(UserSeq) + 1]]
  /\ UNCHANGED <<today, userModel, req, users>>
  /\ UNCHANGED codeVars

\* deletedCount, the number a run of the callback logs
DeletedCount(j) == Cardinality(job[j].purged)

\* the account lifecycle proper: requests, recoveries and the sweep.  One client
\* at a time asks, while up to two runs of the sweep overlap
NextLifecycle ==
  \/ NextDay
  \/ \E c \in Solo, u \in UserIds, r \in Reasons, f \in BOOLEAN :
        RequestCheck(c, u, r, f)
  \/ \E c \in Solo : RequestUpdate(c)
  \/ \E c \in Solo, u \in UserIds, f \in BOOLEAN : RecoverRead(c, u, f)
  \/ \E c \in Solo : RecoverUpdate(c)
  \/ \E c \in Solo, u \in UserIds, r \in Reasons, f \in BOOLEAN :
        RequestSimple(c, u, r, f)
  \/ \E c \in Solo, u \in UserIds, f \in BOOLEAN : RecoverSimple(c, u, f)
  \/ \E j \in Jobs, f \in BOOLEAN : SweepStart(j, f)
  \/ \E j \in Jobs, f \in BOOLEAN : SweepRow(j, f)
  \/ \E j \in Jobs : SweepReturn(j)
  \/ \E j \in Jobs : SweepSimple(j)

\* ... together with the admin's deletion of a user
NextAcct ==
  \/ NextLifecycle
  \/ \E u \in UserIds, f \in BOOLEAN : AdminDeleteUser(u, f)

SpecAcct == InitAcct /\ [][NextAcct]_vars

\* the account lifecycle together with the logins and the authenticated requests
NextSession ==
  \/ NextLifecycle
  \/ \E c \in Solo, u \in UserIds, ok \in BOOLEAN, f \in BOOLEAN :
        Login(c, u, ok, f)
  \/ \E c \in Solo, u \in UserIds, f \in BOOLEAN : SocialLogin(c, u, f)
  \/ \E c \in Solo, u \in UserIds, f \in BOOLEAN : AuthMiddleware(c, u, f)

SpecSession == InitAcct /\ [][NextSession]_vars

\* the account lifecycle together with the status query
NextStatus ==
  \/ NextLifecycle
  \/ \E c \in Solo, u \in UserIds, f \in BOOLEAN : GetDeletionStatus(c, u, f)

SpecStatus == InitAcct /\ [][NextStatus]_vars

\* the run of the sweep that races with the clients
OneJob == {"j1"}

\* the account lifecycle with two clients whose calls overlap, and one run of the
\* sweep at a time
NextRace ==
  \/ NextDay
  \/ \E c \in Clients, u \in UserIds, r \in Reasons, f \in BOOLEAN :
        RequestCheck(c, u, r, f)
  \/ \E c \in Clients : RequestUpdate(c)
  \/ \E c \in Clients, u \in UserIds, f \in BOOLEAN : RecoverRead(c, u, f)
  \/ \E c \in Clients : RecoverUpdate(c)
  \/ \E c \in Clients, u \in UserIds, r \in Reasons, f \in BOOLEAN :
        RequestSimple(c, u, r, f)
  \/ \E c \in Clients, u \in UserIds, f \in BOOLEAN : RecoverSimple(c, u, f)
  \/ \E j \in OneJob, f \in BOOLEAN : SweepStart(j, f)
  \/ \E j \in OneJob, f \in BOOLEAN : SweepRow(j, f)
  \/ \E j \in OneJob : SweepReturn(j)
  \/ \E j \in OneJob : SweepSimple(j)

SpecRace == InitAcct /\ [][NextRace]_vars

\* =================================================================== claims
\* ----------------------------------------------------- helpers of the claims
\* the verify operations: EmailVerification.verify and POST /verify-auth
VerifyOps == {"verify", "verifyAuth"}

\* p is a verify call made in this step
VerifyCalled(p) == proc[p].pc = "idle" /\ proc'[p].op \in VerifyOps

\* a row of email_verifications or an entry of authCodes that is active
Unexpired(expires_at) == ~(now > expires_at)
ActiveRows(e) ==
  {i \in 1..Len(email_verifications) :
      /\ email_verifications[i].email = e
      /\ email_verifications[i].is_verified = FALSE
      /\ Unexpired(email_verifications[i].expires_at)}

\* two verify calls that were both handed the same stored code while it was valid
Raced(p, q) ==
  /\ p # q
  /\ proc[p].op \in VerifyOps /\ proc[q].op = proc[p].op
  /\ proc[p].email = proc[q].email /\ proc[p].code = proc[q].code
  /\ proc[p].row # 0 /\ proc[p].row = proc[q].row

\* C1: two concurrent verify calls that submit the same correct, unconsumed,
\* unexpired code for the same key (email flow or admin second factor) end, when
\* neither meets a store failure, with exactly one success and one failure
C1_ExactlyOneSuccess ==
  \A p, q \in Procs :
    ( /\ Raced(p, q)
      /\ proc[p].pc = "done" /\ proc[q].pc = "done"
      /\ proc[p].result # "error" /\ proc[q].result # "error" )
    => ((proc[p].result = "success") # (proc[q].result = "success"))

\* C2: every (identity key, purpose) has at most one active code: at most one
\* unconsumed, unexpired row per email, at most one entry per admin email
C2_AtMostOneActive ==
  /\ \A e \in Emails : Cardinality(ActiveRows(e)) <= 1
  /\ \A a \in AdminEmails :
        Cardinality({authCodes[a]} \ {NoAuth}) <= 1

\* a finished resend of q issued row i
IssuedByResend(q, i) ==
  proc[q].op = "resend" /\ proc[q].result = "success" /\ proc[q].row = i

\* C3: once a second code has been issued for a key (by resend, or by a repeated
\* admin /login), no verify made from then on matches the first code when its
\* value differs from the second's
C3_SupersededFails ==
  [][\A p \in Procs :
       (VerifyCalled(p) /\ proc'[p].row # 0) =>
         /\ proc'[p].op = "verify" =>
              ~\E q \in Procs, i \in 1..Len(email_verifications) :
                  /\ IssuedByResend(q, i)
                  /\ i > proc'[p].row
                  /\ email_verifications[i].email = proc'[p].email
                  /\ email_verifications[i].code # proc'[p].code
         /\ proc'[p].op = "verifyAuth" => proc'[p].row = logins
    ]_vars

\* the newest row issued for e
NewestRow(e) ==
  Max({0} \cup {i \in 1..Len(email_verifications) :
                  email_verifications[i].email = e})

\* C4: no stored code is the basis of two successful verifications, and once a
\* verify of the newest code of a key has succeeded, no later verify with that
\* value succeeds while no new code has been issued
C4_NoReplay ==
  /\ [](\A p, q \in Procs :
          Raced(p, q) => ~(proc[p].result = "success" /\ proc[q].result = "success"))
  /\ [][\A p \in Procs :
          (VerifyCalled(p) /\ proc'[p].op = "verify" /\ proc'[p].row # 0) =>
            ~\E q \in Procs :
                /\ proc[q].op = "verify" /\ proc[q].result = "success"
                /\ proc[q].email = proc'[p].email /\ proc[q].code = proc'[p].code
                /\ proc[q].row = NewestRow(proc[q].email)
       ]_vars

\* the unconsumed rows that carry the value c for e
Carrying(e, c) ==
  {i \in 1..Len(email_verifications) :
      /\ email_verifications[i].email = e
      /\ email_verifications[i].code = c
      /\ email_verifications[i].is_verified = FALSE}

\* C5: a verify made after the code's expires_at fails although the value is
\* right and the code unconsumed: it matches no code past its expiry, it ends
\* without success when every code carrying the value is past its expiry, no
\* admin token is generated for an expired entry, and email_verified is only
\* ever set by a call that matched
C5_ExpiredFails ==
  [][/\ \A p \in Procs :
          VerifyCalled(p) =>
            /\ proc'[p].op = "verify" =>
                 LET live == Carrying(proc'[p].email, proc'[p].code)
                 IN /\ proc'[p].row # 0 =>
                         ~(now > email_verifications[proc'[p].row].expires_at)
                    /\ ( /\ live # {}
                         /\ \A i \in live : now > email_verifications[i].expires_at )
                       => /\ proc'[p].pc = "done"
                          /\ proc'[p].result \in {"invalid", "error"}
                    /\ users' = users
            /\ proc'[p].op = "verifyAuth" =>
                 LET authData == authCodes[proc'[p].email]
                 IN (authData # NoAuth /\ now > authData.expiresAt)
                      => proc'[p].pc = "done" /\ proc'[p].result = "expired"
     /\ \A u \in UserIds :
          (users'[u].email_verified /\ ~users[u].email_verified) =>
            \E p \in Procs : /\ proc[p].pc = "consumed"
                             /\ proc'[p].result = "success"
                             /\ email_verifications[proc[p].row].user_id = u
    ]_vars

\* C5 witness: a verify has answered as a failure while the code carrying its
\* value lies unconsumed past its expiry (email), or as expired (admin)
C5_Witness ==
  \E p \in Procs :
    /\ proc[p].pc = "done"
    /\ \/ /\ proc[p].op = "verify" /\ proc[p].result = "invalid"
          /\ Carrying(proc[p].email, proc[p].code) # {}
          /\ \A i \in Carrying(proc[p].email, proc[p].code) :
                now > email_verifications[i].expires_at
       \/ proc[p].op = "verifyAuth" /\ proc[p].result = "expired"

\* ------------------------------------------- claims on the account lifecycle
\* c makes a call in this step
Called(c) == Free(c) /\ req'[c] # req[c]

Pending(u) == Status(u) = "pending_deletion"
Deadline(u) == RequestedAt(users[u]) + GraceDays

\* the call c makes in this step is a recoverAccount that meets no store failure
RecoverCalled(c) ==
  Called(c) /\ req'[c].op = "recoverAccount" /\ req'[c].result # "error"

\* ... and it passes its tests: it goes on to its update, or has already answered ok
RecoverPasses(c) == req'[c].pc = "read" \/ req'[c].result = "ok"

\* C6: recoverAccount succeeds if and only if the account is pending_deletion and
\* now <= deletion_requested_at + 30 days, that last instant included
C6_RecoverIff ==
  [][\A c \in Clients :
       RecoverCalled(c) =>
         (RecoverPasses(c) <=>
            (Pending(req'[c].user) /\ today <= Deadline(req'[c].user)))
    ]_vars

\* C7: recoverAccount on a pending_deletion account whose deadline has passed
\* fails with WindowExpired and leaves the account as it was, whatever the sweeps
\* have done so far
C7_ExpiredRecoverFails ==
  [][\A c \in Clients :
       ( /\ RecoverCalled(c)
         /\ Pending(req'[c].user)
         /\ today > Deadline(req'[c].user) )
       => /\ req'[c].pc = "done"
          /\ req'[c].result = "WindowExpired"
          /\ users' = users
    ]_vars

\* C8: no step of a sweep removes an account that is active, or pending_deletion
\* with now < deletion_requested_at + 30 days, or changes a field of such an
\* account
C8_NoEarlyPurge ==
  [][\A u \in UserIds :
       (users[u].exists /\ ~(Pending(u) /\ today >= Deadline(u)) /\ job' # job) =>
         /\ users'[u].exists
         /\ users'[u] = users[u]
    ]_vars

\* C8 witness: a run of the sweep has purged an account and has gone past
\* another that is pending_deletion within its grace period
C8_Witness ==
  \E j \in Jobs, u \in UserIds :
    /\ job[j].pc = "done" /\ job[j].result = "ok"
    /\ job[j].purged # {}
    /\ Pending(u) /\ today < Deadline(u)

\* C9: when a run of the sweep completes, every account that was pending_deletion
\* with its grace period elapsed when the run started is gone
C9_EligiblePurged ==
  [][\A j \in Jobs :
       (job[j].pc = "running" /\ job'[j].pc = "done" /\ job'[j].result = "ok") =>
         \A u \in job[j].due : ~users'[u].exists
    ]_vars

\* C10: of two runs of the sweep that overlap, exactly one purges each account
\* that both found eligible, and the count each returns is the number of accounts
\* it removed, so that the counts add up to the number of accounts removed
C10_OverlapExactlyOnce ==
  /\ [](\A j, k \in Jobs : j # k => job[j].purged \cap job[k].purged = {})
  /\ [][\A j \in Jobs :
          (job[j].pc = "running" /\ job'[j].pc = "done" /\ job'[j].result = "ok") =>
            DeletedCount(j)'
              = Cardinality({u \in UserIds : users[u].exists /\ ~users'[u].exists})
       ]_vars
  /\ [][\A j, k \in Jobs :
          ( /\ j # k
            /\ job[j].pc = "running" /\ job'[j].pc = "done" /\ job'[j].result = "ok"
            /\ job[k].pc = "running" )
          => \A u \in job[j].due \cap job[k].due :
                /\ ~users'[u].exists
                /\ (u \in job[j].purged) # (u \in job[k].purged)
       ]_vars

\* the call c makes in this step is a requestDeletion that meets no store failure
RequestCalled(c) ==
  Called(c) /\ req'[c].op = "requestDeletion" /\ req'[c].result # "error"

\* C11: requestDeletion on an account that is already pending_deletion is rejected
\* with AlreadyPending and leaves the account's status, deletion timestamp and
\* deletion reason as they were
C11_AlreadyPendingRejected ==
  [][\A c \in Clients :
       (RequestCalled(c) /\ Pending(req'[c].user)) =>
         /\ req'[c].pc = "done"
         /\ req'[c].result = "AlreadyPending"
         /\ users' = users
    ]_vars

\* c's call in this step is a login, by password or through a social provider
LoginCalled(c) == Called(c) /\ req'[c].op \in {"login", "socialLogin"}

\* C12: while an account is pending_deletion, no password login and no social
\* login for it returns a session token, at any time of the grace period
C12_PendingLoginRefused ==
  [][\A c \in Clients :
       (LoginCalled(c) /\ Pending(req'[c].user)) => req'[c].result # "token"
    ]_vars

\* the requestDeletion c calls in this step passes its tests: it goes on to its
\* update, or has already answered ok
RequestPasses(c) == req'[c].pc = "checked" \/ req'[c].result = "ok"

\* C13: requestDeletion on an active account succeeds, and from then on, until a
\* recoverAccount succeeds, authMiddleware rejects every request that carries a
\* token of the account and never calls next()
C13_PendingTokenRejected ==
  [][\A c \in Clients :
       /\ (RequestCalled(c) /\ Status(req'[c].user) = "active") => RequestPasses(c)
       /\ ( /\ Called(c) /\ req'[c].op = "authMiddleware"
            /\ Status(req'[c].user) # "active" )
          => req'[c].result \in {"forbidden", "unauthorized"}
    ]_vars

\* C13 witness: authMiddleware has turned away a request that carries the token
\* of an account whose deletion was requested and which is still stored
C13_Witness ==
  \E c \in Clients :
    /\ req[c].op = "authMiddleware" /\ req[c].result = "forbidden"
    /\ Pending(req[c].user)

\* the operation that acts in this step
ActsIn(op) == \E c \in Clients : req'[c] # req[c] /\ req'[c].op = op

\* C14: every change of an account's status is active -> pending_deletion made by
\* requestDeletion, pending_deletion -> active made by recoverAccount, or
\* pending_deletion -> deleted made by the sweep; nothing leaves deleted and
\* nothing takes an active account straight to deleted
C14_LegalTransitions ==
  [][\A u \in UserIds :
       Status(u)' # Status(u) =>
         \/ /\ Status(u) = "active" /\ Status(u)' = "pending_deletion"
            /\ ActsIn("requestDeletion")
         \/ /\ Status(u) = "pending_deletion" /\ Status(u)' = "active"
            /\ ActsIn("recoverAccount")
         \/ /\ Status(u) = "pending_deletion" /\ Status(u)' = "deleted"
            /\ job' # job
    ]_vars

\* C15: in every reachable state an account that is suspended for deletion
\* (is_active = false) has a deletion timestamp
C15_PendingHasTimestamp ==
  \A u \in UserIds :
    (users[u].exists /\ users[u].is_active = FALSE) =>
       RequestedAt(users[u]) # NoTime

\* C15 witness: an account is suspended with its timestamp after a sweep has run
\* and a recoverAccount has succeeded
C15_Witness ==
  \E u \in UserIds, c \in Clients, j \in Jobs :
    /\ users[u].exists /\ users[u].is_active = FALSE
    /\ RequestedAt(users[u]) # NoTime
    /\ req[c].op = "recoverAccount" /\ req[c].result = "ok"
    /\ job[j].pc = "done"

\* the recoverAccount of c answers ok in this step
RecoverSucceeds(c) ==
  req'[c] # req[c] /\ req'[c].op = "recoverAccount" /\ req'[c].result = "ok"

\* the users row of an account before any deletion was requested
FreshUser == [NoUser EXCEPT !.exists = TRUE]

C17_DispatchFailureKeepsCode ==
  [][transporter = "down" =>
       /\ \A e \in Mailboxes, c \in CodeValues :
            SendEmailVerification(e, c) =>
              Len(email_verifications') \in ActiveRows(e)'
       /\ \A p \in Procs, c \in CodeValues :
            (ResendCreate(p, c, FALSE) /\ UserByEmail(proc[p].email) # NULL) =>
              /\ proc'[p].result = "success"
              /\ Len(email_verifications') \in ActiveRows(proc[p].email)'
       /\ \A p \in Procs, e \in Emails, c \in CodeValues :
            ( /\ VerifySelect(p, e, c, FALSE)
              /\ \E i \in ActiveRows(e) : /\ email_verifications[i].code = c
                                           /\ now < email_verifications[i].expires_at )
            => proc'[p].pc = "selected"
       /\ \A p \in Procs : VerifyConsume(p, FALSE) => proc'[p].pc = "consumed"
       /\ \A p \in Procs : VerifyUser(p, FALSE) => proc'[p].result = "success"
    ]_vars

\* the run j ends in this step because the deletion of the row it has reached failed
EraseFailed(j) ==
  /\ job[j].pc = "running"
  /\ job'[j].pc = "done" /\ job'[j].result = "failed"

\* C18: when erasing one eligible account fails during a run of the sweep, the
\* other accounts that are eligible in that run are still purged by it
C18_FailureIsolated ==
  [][\A j \in Jobs :
       EraseFailed(j) =>
         \A u \in job[j].due \ {UserSeq[job[j].next]} :
            PurgeEligible(users[u], job[j].at) => ~users'[u].exists
    ]_vars

\* ------------------------------------------------- the sweep under fair scheduling
\* a step of a run of the cron callback
SweepStep ==
  \E j \in Jobs :
    \/ \E f \in BOOLEAN : SweepStart(j, f) \/ SweepRow(j, f)
    \/ SweepReturn(j)
    \/ SweepSimple(j)

\* the account lifecycle proper, where cron fires every day and a run that has
\* started goes on to its end
SpecAcctLive == InitAcct /\ [][NextLifecycle]_vars /\ WF_vars(SweepStep)

\* a step in which a run of the sweep fails
SweepFails == \E j \in Jobs : job'[j] # job[j] /\ job'[j].result = "failed"

\* C19: a failed run leaves the scheduler registered and later runs take up the
\* accounts that were eligible: provided the runs do not fail forever, every
\* eligible account is eventually purged (or has left the eligible accounts)
C19_EventuallyPurged ==
  \A u \in UserIds :
    (<>[][~SweepFails]_vars) => ((u \in Eligible) ~> ~(u \in Eligible))

\* ------------------------------------------------- claims on the failure responses
\* the status and message a verify request answers with: POST /verify-email sends
\* one 400 for every null of EmailVerification.verify, POST /verify-auth a 401
\* with a message of its own for each test that fails
Response(p) ==
  CASE proc[p].result = "success"  -> <<200, "completed">>
    [] proc[p].result = "invalid"  -> <<400, "invalid or expired code">>
    [] proc[p].result = "notfound" -> <<401, "no code exists, log in again">>
    [] proc[p].result = "expired"  -> <<401, "code has expired, log in again">>
    [] proc[p].result = "mismatch" -> <<401, "wrong code">>
    [] OTHER                       -> <<500, "server error">>

\* p has answered a verify as failed: no code for the key, code expired, or value
\* mismatch
VerifyFailed(p) ==
  /\ proc[p].op \in VerifyOps /\ proc[p].pc = "done"
  /\ proc[p].result \in {"invalid", "notfound", "expired", "mismatch"}

\* C20: two failed verifications on the same endpoint get the same response,
\* whether no code exists for the key, the code has expired or the value
\* mismatches
C20_FailuresIndistinguishable ==
  \A p, q \in Procs :
    (VerifyFailed(p) /\ VerifyFailed(q) /\ proc[p].op = proc[q].op) =>
       Response(p) = Response(q)

\* ------------------------------------------------- claims on store failures
\* the rows that resend's invalidation of the codes of e is to mark
Invalidated(e) ==
  {i \in 1..Len(email_verifications) :
      email_verifications[i].email = e /\ email_verifications[i].is_verified = FALSE}

\* C21: an operation whose data-store round trip fails reports the failure to its
\* caller and goes no further: a verify, a resend, a requestDeletion or a
\* recoverAccount that meets a store failure ends with an error, and resend issues
\* no code once its invalidation of the earlier codes has failed
C21_StoreFailureReported ==
  [][/\ \A p \in Procs, e \in Emails, c \in CodeValues :
          VerifySelect(p, e, c, TRUE) =>
            proc'[p].pc = "done" /\ proc'[p].result = "error"
     /\ \A p \in Procs :
          (VerifyConsume(p, TRUE) \/ VerifyUser(p, TRUE)) =>
            proc'[p].pc = "done" /\ proc'[p].result = "error"
     /\ \A p \in Procs, e \in Emails :
          (ResendInvalidate(p, e, TRUE) /\ Invalidated(e) # {}) =>
            proc'[p].pc = "done" /\ proc'[p].result = "error"
     /\ \A p \in Procs, c \in CodeValues :
          ResendCreate(p, c, TRUE) =>
            proc'[p].pc = "done" /\ proc'[p].result = "error"
     /\ \A c \in Clients, u \in UserIds, r \in Reasons :
          (RequestCheck(c, u, r, TRUE) \/ RequestSimple(c, u, r, TRUE)) =>
            req'[c].pc = "done" /\ req'[c].result = "error"
     /\ \A c \in Clients, u \in UserIds :
          (RecoverRead(c, u, TRUE) \/ RecoverSimple(c, u, TRUE)) =>
            req'[c].pc = "done" /\ req'[c].result = "error"
    ]_vars

\* ------------------------------------------------- claims on the status query
\* max(0, gracePeriod - (now - deletion_requested_at)), in whole days
DaysLeft(u) ==
  LET d == GraceDays - (today - RequestedAt(users[u])) IN IF d > 0 THEN d ELSE 0

\* C22: for a pending_deletion account getStatus reports days_remaining =
\* max(0, 30 - (now - deletion_requested_at)): never a negative number, and a
\* positive one while a full day of the grace period remains
C22_DaysRemaining ==
  [][\A c \in Clients :
       ( /\ Called(c) /\ req'[c].op = "getDeletionStatus"
         /\ req'[c].result # "error"
         /\ Pending(req'[c].user) )
       => /\ req'[c].result = "scheduled"
          /\ req'[c].days_remaining = DaysLeft(req'[c].user)
          /\ req'[c].days_remaining >= 0
          /\ today + 1 <= Deadline(req'[c].user) => req'[c].days_remaining > 0
    ]_vars

\* ------------------------------------------------- claims on verify as a unit
\* the verify of p returns or throws in this step, having matched a code
VerifyEnds(p) ==
  /\ proc[p].op = "verify" /\ proc[p].pc \in {"selected", "consumed"}
  /\ proc'[p].pc = "done"

\* C23: verify applies the consumption of the code it matched and the flip of the
\* owning user's email_verified as one unit: when the call returns or throws it
\* has done neither, or the code is consumed and the user's email_verified is
\* true, also for a code stored with a null user_id
C23_ConsumeAndFlipTogether ==
  [][\A p \in Procs :
       VerifyEnds(p) =>
         LET i == proc[p].row
             uid == email_verifications[i].user_id
         IN IF proc[p].pc = "selected"
            THEN email_verifications' = email_verifications /\ users' = users
            ELSE /\ email_verifications'[i].is_verified
                 /\ uid # NULL
                 /\ users'[uid].email_verified
    ]_vars

\* ------------------------------------------------- claims on overlapping calls
\* C24: a recoverAccount that answers success while a run of the sweep is under
\* way leaves the account stored and active: under no interleaving of its read and
\* its update with the sweep is an account reported recovered and purged
C24_RecoveredNotPurged ==
  [][\A c \in Clients, u \in UserIds :
       (RecoverSucceeds(c) /\ req'[c].user = u) =>
         /\ users'[u].exists
         /\ users'[u].is_active
    ]_vars

\* C25: a verify that consumes a code removes or invalidates no other code of the
\* key: a code issued (admin /login, email resend) while the verify of the earlier
\* code is in flight is still stored, untouched, when that verify completes
C25_LaterCodeSurvives ==
  [][\A p \in Procs :
       /\ (proc[p].op = "verify" /\ proc[p].pc = "selected" /\ proc'[p] # proc[p]) =>
            \A i \in 1..Len(email_verifications) :
               i # proc[p].row => email_verifications'[i] = email_verifications[i]
       /\ (proc[p].op = "verifyAuth" /\ proc[p].pc = "matched" /\ proc'[p] # proc[p]) =>
            LET authData == authCodes[proc[p].email]
            IN (authData # NoAuth /\ authData.seq # proc[p].row) =>
                 authCodes'[proc[p].email] = authData
    ]_vars

\* C26: once a requestDeletion has set the deletion timestamp of an account, no
\* step changes it while the account stays pending_deletion: a repeated
\* requestDeletion, or two requestDeletion calls that overlap, do not restart or
\* push back the grace period
C26_TimestampKept ==
  [][\A u \in UserIds :
       (Pending(u) /\ Pending(u)') =>
          RequestedAt(users[u])' = RequestedAt(users[u])
    ]_vars

TokenIssued(p) == proc[p].token = NULL /\ proc'[p].token # NULL

\* C28: an admin token is issued only by a /verify-auth call that matched an
\* unexpired code stored for its email, the code having been stored by a /login
\* whose password check succeeded, and the token is that admin's; a /login with a
\* wrong password stores nothing and only a call that matched answers success
C28_TokenOnlyAfterMatch ==
  [][/\ \A p \in Procs :
          TokenIssued(p) =>
            LET a == proc'[p].email
                authData == authCodes[a]
            IN /\ proc'[p].op = "verifyAuth"
               /\ authData # NoAuth
               /\ authData.code = proc'[p].code
               /\ ~(now > authData.expiresAt)
               /\ proc'[p].token = AdminId(a)
     /\ \A a \in AdminEmails :
          (authCodes'[a] # authCodes[a] /\ authCodes'[a] # NoAuth) =>
            \E c \in CodeValues : AdminLogin(a, c, TRUE)
     /\ \A a \in AdminEmails, c \in CodeValues :
          AdminLogin(a, c, FALSE) => authCodes' = authCodes
     /\ \A p \in Procs :
          ( /\ proc'[p] # proc[p]
            /\ proc'[p].op = "verifyAuth" /\ proc'[p].result = "success" )
          => proc[p].pc = "matched" /\ proc'[p].token = proc[p].token
    ]_vars

\* C28 witness: a /verify-auth has answered success with the token of the admin
\* who logged in
C28_Witness ==
  \E p \in Procs :
    /\ proc[p].op = "verifyAuth" /\ proc[p].result = "success"
    /\ logins >= 1
    /\ proc[p].token = AdminId(proc[p].email)

\* C29: a user's email_verified becomes true only when the user is created as a
\* social-login user, or through a successful verify that named the user's own
\* email and matched an unconsumed, unexpired code issued for that email to that
\* user; a verify that names another email never sets it
C29_VerifiedOnlyByOwnCode ==
  [][/\ \A u \in UserIds :
          (users'[u].email_verified /\ ~users[u].email_verified) =>
            \/ ~users[u].exists /\ AuthProvider(u) # "email"
            \/ \E p \in Procs :
                 /\ proc[p].op = "verify" /\ proc[p].pc = "consumed"
                 /\ proc'[p].result = "success"
                 /\ LET r == email_verifications[proc[p].row]
                    IN /\ r.user_id = u
                       /\ r.email = EmailOf(u)
                       /\ proc[p].email = r.email
                       /\ proc[p].code = r.code
     /\ \A p \in Procs :
          (VerifyCalled(p) /\ proc'[p].op = "verify" /\ proc'[p].pc = "selected") =>
            LET r == email_verifications[proc'[p].row]
            IN /\ r.email = proc'[p].email
               /\ r.code = proc'[p].code
               /\ r.is_verified = FALSE
               /\ r.expires_at > now
    ]_vars

\* C29 witness: a social-login user has signed up, a verify has set the
\* email_verified of the user its code was issued for, and a verify that named
\* another address with the same value has failed
C29_Witness ==
  \E p, q \in Procs :
    /\ \E u \in UserIds : users[u].exists /\ AuthProvider(u) # "email"
    /\ proc[p].op = "verify" /\ proc[p].result = "success"
    /\ email_verifications[proc[p].row].user_id # NULL
    /\ users[email_verifications[proc[p].row].user_id].email_verified
    /\ proc[q].op = "verify" /\ proc[q].result = "invalid"
    /\ proc[q].email # proc[p].email /\ proc[q].code = proc[p].code

\* ------------------------------------------------- claims on wrong attempts
\* the verify p calls in this step fails because the value it submits mismatches:
\* an active code is stored for its key and none with that value
Mismatched(p) ==
  /\ VerifyCalled(p)
  /\ \/ /\ proc'[p].op = "verify"
        /\ ActiveRows(proc'[p].email) # {}
        /\ \A i \in ActiveRows(proc'[p].email) :
              email_verifications[i].code # proc'[p].code
     \/ /\ proc'[p].op = "verifyAuth"
        /\ authCodes[proc'[p].email] # NoAuth
        /\ Unexpired(authCodes[proc'[p].email].expiresAt)
        /\ authCodes[proc'[p].email].code # proc'[p].code

=============================================================================
